---- MODULE Spec2Model ----
(***************************************************************************)
(* A model of the messy e-commerce data generator                          *)
(* (src/util/generate_sales_data.py, class MessyEcommerceGenerator) and of *)
(* the simpler generator's introduce_error (src/archive/generate_data.py). *)
(*                                                                         *)
(* The module holds several specifications over one set of variables:      *)
(*   Spec        the streaming writer, generate_csv                        *)
(*   SpecStatus  generate_batch_data, payment/order status columns         *)
(*   SpecDates   generate_batch_data, order and registration dates         *)
(*   SpecShip    generate_batch_data, customer and shipping geography      *)
(*   SpecMess    introduce_messiness / introduce_error as functions        *)
(*   SpecDet     two runs of the generator from the same seed              *)
(* A specification leaves the variables of the others at their initial     *)
(* values.                                                                 *)
(***************************************************************************)
EXTENDS Integers, Sequences, FiniteSets, Bags, TLC

VARIABLES
    \* ---- generate_csv (self.* and its locals)
    total_rows,     \* self.total_rows
    batch_size,     \* self.batch_size
    pc,             \* position in generate_csv
    num_batches,    \* local num_batches
    batch_num,      \* loop variable batch_num
    rows_written,   \* local rows_written
    sink,           \* the lines of the output file
    calls,          \* the generate_batch_data calls made so far
    first_batch,    \* local first_batch (a DataFrame, or NoBatch)
    batch_df,       \* local batch_df (a DataFrame, or NoBatch)
    \* ---- generate_batch_data, one row of the batch
    gpc,            \* position in generate_batch_data
    row,            \* the row's locals and batch_data cells
    \* ---- introduce_messiness / introduce_error as functions
    mpc,            \* "call" before the call, "returned" after
    margs,          \* the arguments of the call
    mresult,        \* what the call returned (or the exception it raised)
    mbranch,        \* the branch the call took (local error_type)
    \* ---- two runs from one seed
    seed,           \* the seed both runs are started with
    runs,           \* per run: position, generator state, catalog, file
    \* ---- the lookup catalogs of one generator object
    cpc,            \* position in __init__, then "ready"
    catalogs,       \* self.customers, self.weighted_customers, ...
    ncalls          \* the calls made on the object since __init__

writerVars == <<total_rows, batch_size, pc, num_batches, batch_num,
                rows_written, sink, calls, first_batch, batch_df>>
rowVars == <<gpc, row>>
messVars == <<mpc, margs, mresult, mbranch>>
detVars == <<seed, runs>>
catVars == <<cpc, catalogs, ncalls>>
vars == <<writerVars, rowVars, messVars, detVars, catVars>>

(***************************************************************************)
(* Bounds of the model.                                                    *)
(***************************************************************************)
MaxRows == 7
MaxBatchSize == 3
\* two runs from one seed: the seeds tried, the ids uuid4 can return, the
\* customers set up (names in first_names x last_names), the rows generated
MaxSeed == 3
NumUuids == 2
NumNames == 2
DetRows == 2

(***************************************************************************)
(* Python values.  A value is a record: tag names the type, s holds a      *)
(* str's characters, n an int (or a float, in hundredths).                 *)
(***************************************************************************)
PyStr(s) == [tag |-> "str", s |-> s, n |-> 0]
PyInt(n) == [tag |-> "int", s |-> "", n |-> n]
\* An int wider than 32 bits, kept by its digits.
PyBigInt(digits) == [tag |-> "int", s |-> digits, n |-> 0]
PyFloat(h) == [tag |-> "float", s |-> "", n |-> h]
PyNone == [tag |-> "None", s |-> "", n |-> 0]
PyNaN == [tag |-> "nan", s |-> "", n |-> 0]

(***************************************************************************)
(* generate_batch_data: the columns of the DataFrame it returns, in the    *)
(* order batch_data receives them, and how each column's cells are made.   *)
(***************************************************************************)
BatchColumns ==
    << "order_id", "order_date", "order_time", "order_status", "shipping_cost",
       "customer_id", "customer_email", "customer_first_name",
       "customer_last_name", "customer_phone", "customer_age",
       "customer_gender", "customer_registration_date", "customer_city",
       "customer_state", "product_id", "product_name", "product_category",
       "product_subcategory", "product_brand", "product_cost",
       "product_list_price", "warehouse_id", "warehouse_city",
       "warehouse_state", "warehouse_country", "quantity_ordered",
       "payment_method", "payment_status", "order_returned",
       "payment_refunded", "shipping_address_line1", "shipping_address_line2",
       "shipping_city", "shipping_state", "shipping_zip", "shipping_country",
       "shipping_method" >>

\* The columns whose cells are the result of introduce_messiness, with the
\* messiness_rate of the call, in percent.
MessinessRate ==
    [ order_time |-> 5, order_status |-> 6, shipping_cost |-> 10,
      customer_age |-> 12, customer_gender |-> 8, customer_city |-> 7,
      customer_state |-> 5, payment_method |-> 5, payment_status |-> 4,
      order_returned |-> 10, payment_refunded |-> 10,
      shipping_address_line2 |-> 65, shipping_country |-> 3,
      shipping_method |-> 5 ]

\* The columns whose cells are the result of create_messy_zip: the method is
\* defined (lines 78-103) and called nowhere; line 609 assigns the list of
\* get_zip_for_city_state results as it is.
MessyZipColumns == {}

\* Who made the cells of a column.
ColumnRoute(c) ==
    IF c \in DOMAIN MessinessRate THEN "introduce_messiness"
    ELSE IF c \in MessyZipColumns THEN "create_messy_zip"
    ELSE "raw"

NoBatch == [start |-> -1, nrows |-> -1, columns |-> << >>]

\* generate_batch_data(batch_start, batch_size), as generate_csv sees it:
\* a DataFrame of batch_size rows (none when batch_size <= 0: every
\* range(batch_size) is empty) under the columns above.
generate_batch_data(batch_start, size) ==
    [start |-> batch_start,
     nrows |-> IF size > 0 THEN size ELSE 0,
     columns |-> BatchColumns]

(***************************************************************************)
(* DataFrame.to_csv(filename, index=False, mode=..., header=...)           *)
(***************************************************************************)
HeaderLine(df) ==
    [kind |-> "header", start |-> 0, idx |-> 0, ncols |-> Len(df.columns)]

RowLines(df) ==
    [i \in 1..df.nrows |->
        [kind |-> "row", start |-> df.start, idx |-> i - 1,
         ncols |-> Len(df.columns)]]

to_csv(file, df, mode, header) ==
    (IF mode = "w" THEN << >> ELSE file)
        \o (IF header THEN <<HeaderLine(df)>> ELSE << >>)
        \o RowLines(df)

Min(a, b) == IF a <= b THEN a ELSE b

\* A line some earlier program left in the file.
StaleLine == [kind |-> "stale", start |-> 0, idx |-> 0, ncols |-> 0]

(***************************************************************************)
(* generate_csv                                                            *)
(***************************************************************************)
\* A slip: the batches counted by a division that rounds down.
NumBatches_rounded_down(total, size) == total \div size

\* line 622
NumBatches(total, size) == (total + size - 1) \div size

\* line 625: the size asked of the first batch
FirstBatchSize(total, size) == Min(size, total)

\* A slip: every later batch is asked at full size.
CurrentBatchSize_full(total, size, batch_start) == size

\* line 635
CurrentBatchSize(total, size, batch_start) == Min(size, total - batch_start)

\* line 626: how the first batch is written
FirstWrite(file, df) == to_csv(file, df, "w", TRUE)

\* A slip: header=False forgotten, to_csv writes its default header.
AppendWrite_with_header(file, df) == to_csv(file, df, "a", TRUE)

\* line 641: how a later batch is written
AppendWrite(file, df) == to_csv(file, df, "a", FALSE)

RowIdle ==
    /\ gpc = "idle"
    /\ row = [c \in {} |-> 0]
MessIdle ==
    /\ mpc = "idle"
    /\ margs = << >>
    /\ mresult = PyNone
    /\ mbranch = "idle"
DetIdle ==
    /\ seed = 0
    /\ runs = << >>
CatIdle ==
    /\ cpc = "idle"
    /\ catalogs = [c \in {} |-> 0]
    /\ ncalls = 0
WriterIdle ==
    /\ total_rows = 0
    /\ batch_size = 0
    /\ pc = "idle"
    /\ num_batches = 0
    /\ batch_num = 0
    /\ rows_written = 0
    /\ sink = << >>
    /\ calls = << >>
    /\ first_batch = NoBatch
    /\ batch_df = NoBatch

\* MessyEcommerceGenerator(total_rows) constructed, batch_size set, and
\* generate_csv about to run on a file that may already exist.
WriterInit ==
    /\ total_rows \in 0..MaxRows
    /\ batch_size \in 1..MaxBatchSize
    /\ pc = "start"
    /\ num_batches = 0
    /\ batch_num = 0
    /\ rows_written = 0
    /\ sink \in {<< >>, <<StaleLine>>}
    /\ calls = << >>
    /\ first_batch = NoBatch
    /\ batch_df = NoBatch

Init == WriterInit /\ RowIdle /\ MessIdle /\ DetIdle /\ CatIdle

\* line 622
CountBatches ==
    /\ pc = "start"
    /\ num_batches' = NumBatches(total_rows, batch_size)
    /\ pc' = "gen_first"
    /\ UNCHANGED <<total_rows, batch_size, batch_num, rows_written, sink,
                   calls, first_batch, batch_df>>
    /\ UNCHANGED <<rowVars, messVars, detVars, catVars>>

\* line 625
GenerateFirstBatch ==
    /\ pc = "gen_first"
    /\ first_batch' = generate_batch_data(0, FirstBatchSize(total_rows, batch_size))
    /\ calls' = Append(calls, first_batch')
    /\ pc' = "write_first"
    /\ UNCHANGED <<total_rows, batch_size, num_batches, batch_num,
                   rows_written, sink, batch_df>>
    /\ UNCHANGED <<rowVars, messVars, detVars, catVars>>

\* lines 626-633: write the first batch, count its rows, enter the loop
WriteFirstBatch ==
    /\ pc = "write_first"
    /\ sink' = FirstWrite(sink, first_batch)
    /\ rows_written' = first_batch.nrows
    /\ batch_num' = 1
    /\ pc' = "loop"
    /\ UNCHANGED <<total_rows, batch_size, num_batches, calls, first_batch,
                   batch_df>>
    /\ UNCHANGED <<rowVars, messVars, detVars, catVars>>

\* lines 633-640: the loop test, the size of the batch, the break, the call
GenerateNextBatch ==
    /\ pc = "loop"
    /\ batch_num < num_batches
    /\ LET batch_start == batch_num * batch_size
           current_batch_size ==
               CurrentBatchSize(total_rows, batch_size, batch_start)
       IN  IF current_batch_size <= 0
           THEN /\ pc' = "finish"
                /\ UNCHANGED <<batch_df, calls>>
           ELSE /\ batch_df' = generate_batch_data(batch_start, current_batch_size)
                /\ calls' = Append(calls, batch_df')
                /\ pc' = "write"
    /\ UNCHANGED <<total_rows, batch_size, num_batches, batch_num,
                   rows_written, sink, first_batch>>
    /\ UNCHANGED <<rowVars, messVars, detVars, catVars>>

\* lines 641-642
WriteNextBatch ==
    /\ pc = "write"
    /\ sink' = AppendWrite(sink, batch_df)
    /\ rows_written' = rows_written + batch_df.nrows
    /\ pc' = "cleanup"
    /\ UNCHANGED <<total_rows, batch_size, num_batches, batch_num, calls,
                   first_batch, batch_df>>
    /\ UNCHANGED <<rowVars, messVars, detVars, catVars>>

\* lines 644-654, and the loop's step to the next batch_num
ReleaseBatch ==
    /\ pc = "cleanup"
    /\ batch_df' = NoBatch
    /\ batch_num' = batch_num + 1
    /\ pc' = "loop"
    /\ UNCHANGED <<total_rows, batch_size, num_batches, rows_written, sink,
                   calls, first_batch>>
    /\ UNCHANGED <<rowVars, messVars, detVars, catVars>>

\* the loop is exhausted
LeaveLoop ==
    /\ pc = "loop"
    /\ batch_num >= num_batches
    /\ pc' = "finish"
    /\ UNCHANGED <<total_rows, batch_size, num_batches, batch_num,
                   rows_written, sink, calls, first_batch, batch_df>>
    /\ UNCHANGED <<rowVars, messVars, detVars, catVars>>

\* lines 656-678: the summary is printed and the file name returned
ReturnFilename ==
    /\ pc = "finish"
    /\ pc' = "done"
    /\ UNCHANGED <<total_rows, batch_size, num_batches, batch_num,
                   rows_written, sink, calls, first_batch, batch_df>>
    /\ UNCHANGED <<rowVars, messVars, detVars, catVars>>

(***************************************************************************)
(* generate_csv ended early.  The method has no try, no finally and no     *)
(* temporary file: an exception raised at one of its lines leaves the      *)
(* method there, and the file is what the writes so far made of it.        *)
(***************************************************************************)
\* What a to_csv that raises part-way (OSError of the open or of a write,
\* KeyboardInterrupt) can leave in the file: the file as it was when the
\* open failed, or, the handle being closed on the way out, the lines
\* written before the failure; mode 'w' has emptied the file first.
FailedWrite(file, df, mode, header) ==
    LET whole == to_csv(file, df, mode, header)
        kept == IF mode = "w" THEN 0 ELSE Len(file)
    IN  {file} \cup {SubSeq(whole, 1, n) : n \in kept..(Len(whole) - 1)}

\* KeyboardInterrupt between two steps of lines 615-678
Interrupt ==
    /\ pc \in {"start", "gen_first", "write_first", "loop", "write",
               "cleanup", "finish"}
    /\ pc' = "terminated"
    /\ UNCHANGED <<total_rows, batch_size, num_batches, batch_num,
                   rows_written, sink, calls, first_batch, batch_df>>
    /\ UNCHANGED <<rowVars, messVars, detVars, catVars>>

\* line 626 raises
FailFirstWrite ==
    /\ pc = "write_first"
    /\ sink' \in FailedWrite(sink, first_batch, "w", TRUE)
    /\ pc' = "terminated"
    /\ UNCHANGED <<total_rows, batch_size, num_batches, batch_num,
                   rows_written, calls, first_batch, batch_df>>
    /\ UNCHANGED <<rowVars, messVars, detVars, catVars>>

\* line 641 raises
FailNextWrite ==
    /\ pc = "write"
    /\ sink' \in FailedWrite(sink, batch_df, "a", FALSE)
    /\ pc' = "terminated"
    /\ UNCHANGED <<total_rows, batch_size, num_batches, batch_num,
                   rows_written, calls, first_batch, batch_df>>
    /\ UNCHANGED <<rowVars, messVars, detVars, catVars>>

Next ==
    \/ CountBatches
    \/ GenerateFirstBatch
    \/ WriteFirstBatch
    \/ GenerateNextBatch
    \/ WriteNextBatch
    \/ ReleaseBatch
    \/ LeaveLoop
    \/ ReturnFilename
    \/ Interrupt
    \/ FailFirstWrite
    \/ FailNextWrite

Spec == Init /\ [][Next]_vars

(***************************************************************************)
(* The claims about generate_csv, checked under Spec.                      *)
(***************************************************************************)
\* The least k with k * b >= a.
CeilDiv(a, b) == CHOOSE k \in 0..a : k * b >= a /\ (k - 1) * b < a

\* The lines of the sink that are data rows of the batch starting at start.
RowsOfBatch(start) ==
    {i \in 1..Len(sink) : sink[i].kind = "row" /\ sink[i].start = start}

\* C5: for positive total_rows and batch_size, a complete run of generate_csv
\* has called generate_batch_data exactly ceil(total_rows / batch_size) times
\* and leaves one header line followed by exactly total_rows data rows, all
\* batches and all rows under the same columns.
C5_CompleteRun ==
    (pc = "done" /\ total_rows >= 1) =>
        /\ Len(calls) = CeilDiv(total_rows, batch_size)
        /\ Len(sink) = total_rows + 1
        /\ sink[1].kind = "header"
        /\ \A i \in 2..Len(sink) :
              sink[i].kind = "row" /\ sink[i].ncols = sink[1].ncols
        /\ \A i \in 1..Len(calls) : calls[i].columns = calls[1].columns

\* C5's case: total_rows a multiple of batch_size (1000 and 500 in the
\* spec, 6 and 3 here): 2 calls, 1 + 6 lines.
C5_Witness ==
    /\ pc = "done"
    /\ total_rows = 6
    /\ batch_size = 3
    /\ Len(calls) = 2
    /\ Len(sink) = 7

\* C6: every batch generate_csv asks for has batch_size rows, except the
\* last, which has what is left of total_rows; the sink holds exactly the
\* rows of each batch (none padded); and with total_rows < batch_size a
\* complete run asks for one batch, of total_rows rows.
C6_BatchSizes ==
    total_rows >= 1 =>
        /\ \A i \in 1..Len(calls) :
              /\ calls[i].start = (i - 1) * batch_size
              /\ calls[i].start < total_rows
              /\ IF i * batch_size <= total_rows
                 THEN calls[i].nrows = batch_size
                 ELSE calls[i].nrows = total_rows - (i - 1) * batch_size
        /\ pc = "done" =>
              /\ \A i \in 1..Len(calls) :
                    Cardinality(RowsOfBatch(calls[i].start)) = calls[i].nrows
              /\ total_rows < batch_size =>
                    Len(calls) = 1 /\ calls[1].nrows = total_rows

\* C6's case: total_rows < batch_size (7 and 500 in the spec, 2 and 3
\* here): one undersized batch.
C6_Witness ==
    /\ pc = "done"
    /\ total_rows = 2
    /\ batch_size = 3
    /\ Len(calls) = 1
    /\ calls[1].nrows = 2
    /\ Len(sink) = 3

\* C6's other case: a last batch that holds the remainder.
C6_WitnessRemainder ==
    /\ pc = "done"
    /\ total_rows = 7
    /\ batch_size = 3
    /\ calls[3].nrows = 1

\* C7: for total_rows >= 0 and batch_size >= 1, generate_csv never generates
\* a batch of zero rows, the first batch included.
C7_NoEmptyBatch ==
    \A i \in 1..Len(calls) : calls[i].nrows > 0

\* C8: once the first batch is written the sink is one header line, first,
\* followed by the data rows written so far, each row of each batch in
\* order: no later write adds a header or drops a line.
C8_OneHeaderFirst ==
    pc \in {"loop", "write", "cleanup", "finish", "done"} =>
        /\ Len(sink) = 1 + rows_written
        /\ sink[1].kind = "header"
        /\ \A i \in 2..Len(sink) :
              /\ sink[i].kind = "row"
              /\ sink[i].start + sink[i].idx = i - 2

\* C8's case: a run of three batches, the later two appended.
C8_Witness ==
    /\ pc = "done"
    /\ Len(calls) >= 3
    /\ Len(sink) = total_rows + 1
    /\ sink[1].kind = "header"

\* C9: the cells of every column of every batch went through the corruption
\* injector: introduce_messiness, or create_messy_zip for shipping_zip.
C9_EveryColumnInjected ==
    \A i \in 1..Len(calls) :
        \A k \in 1..Len(calls[i].columns) :
            LET c == calls[i].columns[k]
            IN  IF c = "shipping_zip"
                THEN ColumnRoute(c) = "create_messy_zip"
                ELSE ColumnRoute(c) = "introduce_messiness"

\* The data rows of the first k batches generate_csv asked for, in order.
RECURSIVE Flushed(_)
Flushed(k) ==
    IF k = 0 THEN << >> ELSE Flushed(k - 1) \o RowLines(calls[k])

\* The data rows among the lines of a file.
DataRows(file) == SelectSeq(file, LAMBDA line : line.kind = "row")

\* C11: when generate_csv is ended early, by an interrupt or by a write that
\* fails, the data rows in the sink are the rows of whole batches (no batch
\* is there in part) and they lie under the header, which is the first line.
C11_ValidPartialState ==
    pc = "terminated" =>
        /\ \E k \in 0..Len(calls) : DataRows(sink) = Flushed(k)
        /\ DataRows(sink) # << >> =>
              /\ sink[1].kind = "header"
              /\ Len(sink) = 1 + Len(DataRows(sink))

\* The batches generate_csv holds a reference to.
LiveBatches ==
    (IF first_batch # NoBatch THEN 1 ELSE 0)
        + (IF batch_df # NoBatch THEN 1 ELSE 0)

\* C12: generate_csv holds at most one batch at a time: every batch, the
\* first included, is released after its write and before the next batch is
\* generated.
C12_OneBatchInMemory == LiveBatches <= 1

(***************************************************************************)
(* Python's str operations, on the characters of a string.                 *)
(***************************************************************************)
LowerLetters == "abcdefghijklmnopqrstuvwxyz"
UpperLetters == "ABCDEFGHIJKLMNOPQRSTUVWXYZ"
Digits == "0123456789"

CharAt(s, i) == SubSeq(s, i, i)

\* The place of character ch in alphabet, 0 when it is not there.
IndexIn(ch, alphabet) ==
    IF \E i \in 1..Len(alphabet) : CharAt(alphabet, i) = ch
    THEN CHOOSE i \in 1..Len(alphabet) : CharAt(alphabet, i) = ch
    ELSE 0

UpperChar(ch) ==
    IF IndexIn(ch, LowerLetters) > 0
    THEN CharAt(UpperLetters, IndexIn(ch, LowerLetters))
    ELSE ch

LowerChar(ch) ==
    IF IndexIn(ch, UpperLetters) > 0
    THEN CharAt(LowerLetters, IndexIn(ch, UpperLetters))
    ELSE ch

\* str.upper()
RECURSIVE Upper(_)
Upper(s) == IF s = "" THEN "" ELSE UpperChar(Head(s)) \o Upper(Tail(s))

\* str.lower()
RECURSIVE Lower(_)
Lower(s) == IF s = "" THEN "" ELSE LowerChar(Head(s)) \o Lower(Tail(s))

\* sub in s
Contains(sub, s) ==
    \E i \in 1..(Len(s) - Len(sub) + 1) : SubSeq(s, i, i + Len(sub) - 1) = sub

\* s.replace(old, new), old not empty
RECURSIVE Replace(_, _, _)
Replace(s, old, new) ==
    IF Len(s) < Len(old) THEN s
    ELSE IF SubSeq(s, 1, Len(old)) = old
         THEN new \o Replace(SubSeq(s, Len(old) + 1, Len(s)), old, new)
         ELSE Head(s) \o Replace(Tail(s), old, new)

\* str(n) of an int
RECURSIVE IntStr(_)
IntStr(n) ==
    IF n < 0 THEN "-" \o IntStr(-n)
    ELSE IF n < 10 THEN CharAt(Digits, n + 1)
    ELSE IntStr(n \div 10) \o CharAt(Digits, (n % 10) + 1)

\* str(x) of a float of at most two decimals, h its hundredths (h >= 0)
FloatStr(h) ==
    IntStr(h \div 100) \o "." \o
        (IF h % 10 = 0 THEN CharAt(Digits, ((h % 100) \div 10) + 1)
         ELSE CharAt(Digits, ((h % 100) \div 10) + 1)
                  \o CharAt(Digits, (h % 10) + 1))

\* str(value), and f"{value}"
Str(value) ==
    CASE value.tag = "str" -> value.s
      [] value.tag = "int" ->
            IF value.s = "" THEN IntStr(value.n) ELSE value.s
      [] value.tag = "float" -> FloatStr(value.n)
      [] value.tag = "None" -> "None"
      [] value.tag = "nan" -> "nan"

\* isinstance(value, str)
IsStr(value) == value.tag = "str"

\* isinstance(value, (int, float)): np.nan is a float
IsNumber(value) == value.tag \in {"int", "float", "nan"}

\* pd.isna(value)
IsMissing(value) == value.tag \in {"None", "nan"}

\* An exception leaving the call.
PyRaise(kind) == [tag |-> "raise", s |-> kind, n |-> 0]

(***************************************************************************)
(* introduce_messiness(value, column_name, messiness_rate): the set of     *)
(* values the call can return (or the exception it can raise), over the    *)
(* draws of random.  messiness_rate is in percent.                         *)
(***************************************************************************)
\* lines 341-365: what the column-specific patterns can return
ColumnMessiness(value, column_name) ==
    IF Contains("email", column_name)
    THEN {PyStr(Replace(Str(value), "@", "")),
          IF IsStr(value)
          THEN PyStr(Str(value) \o "|" \o Replace(value.s, "gmail", "yahoo"))
          ELSE PyRaise("AttributeError")}
    ELSE IF Contains("phone", column_name)
    THEN {PyNaN,
          PyStr(Replace(Replace(Replace(Replace(Str(value),
                    "-", ""), "(", ""), ")", ""), " ", ""))}
    ELSE IF Contains("age", column_name)
    THEN {PyInt(-5), PyInt(150), PyInt(999), PyStr("25 years old"), PyNone}
    ELSE IF Contains("quantity", column_name)
    THEN {PyInt(-1), PyInt(0), PyStr("two"), PyStr(""), PyInt(999)}
    ELSE IF \/ Contains("price", column_name)
            \/ Contains("cost", column_name)
            \/ Contains("amount", column_name)
    THEN {IF IsNumber(value) THEN PyStr("$" \o Str(value)) ELSE value,
          PyStr(Str(value) \o "_error")}
    ELSE {}

\* line 378: the typos of s, one interior character replaced
Typos(s) ==
    {SubSeq(s, 1, pos) \o CharAt("xyz123@#", k) \o SubSeq(s, pos + 2, Len(s)) :
        pos \in 1..(Len(s) - 2), k \in 1..8}

\* lines 368-389: what the general patterns can return
GeneralMessiness(value) ==
    {PyNaN, PyNone}
    \cup (IF IsStr(value)
          THEN {PyStr(value.s \o "|" \o value.s \o "_alt"),
                PyStr("  " \o value.s \o "  "),
                PyStr(value.s \o "   "),
                PyStr(Upper(value.s)),
                PyStr(Lower(value.s))}
          ELSE {})
    \cup (IF IsStr(value) /\ Len(value.s) > 3
          THEN {PyStr(x) : x \in Typos(value.s)}
          ELSE {})
    \cup (IF IsNumber(value)
          THEN {PyStr(Str(value) \o suffix) :
                    suffix \in {"_invalid", ".0.0", "ERROR"}}
          ELSE {})
    \cup {value}

\* lines 332-389
introduce_messiness(value, column_name, messiness_rate) ==
    (IF messiness_rate < 100 THEN {value} ELSE {})
    \cup (IF messiness_rate >= 0
          THEN ColumnMessiness(value, column_name) \cup GeneralMessiness(value)
          ELSE {})

(***************************************************************************)
(* introduce_error(val, error_rate) of the simpler generator.              *)
(***************************************************************************)
\* random_string(n) draws n letters and digits; these stand for them.
SampleStrings == {"aB3xY", "00000", "q7Z", "abc"}
random_string(n) == {s \in SampleStrings : Len(s) = n}

\* src/archive/generate_data.py lines 22-38
introduce_error(val, error_rate) ==
    IF IsMissing(val) THEN {val}
    ELSE (IF error_rate > 0
          THEN {PyNone, PyStr(""), PyStr("??"),
                PyStr(Str(val) \o "," \o Str(val)),
                PyInt(-9999), PyBigInt("9999999999")}
               \cup {PyStr(x) : x \in random_string(5)}
               \cup {PyStr(Str(val) \o " " \o x) : x \in random_string(3)}
          ELSE {})
         \cup (IF error_rate < 100 THEN {val} ELSE {})

(***************************************************************************)
(* SpecMess: the two injectors called on arguments of every kind.          *)
(***************************************************************************)
MessValues ==
    {PyNone, PyNaN, PyStr("james.smith@gmail.com"), PyStr("(212) 555-4567"),
     PyStr("pending"), PyStr("US"), PyInt(25), PyFloat(1999)}

MessColumns ==
    {"customer_email", "customer_phone", "customer_age", "quantity_ordered",
     "product_list_price", "product_cost", "discount_amount", "order_status"}

MessRates == {0, 12, 100}

MessInit ==
    /\ mpc = "call"
    /\ margs \in
          [fn : {"introduce_messiness"}, value : MessValues,
           column_name : MessColumns, rate : MessRates]
          \cup [fn : {"introduce_error"}, value : MessValues,
                column_name : {""}, rate : MessRates]
    /\ mresult = PyNone
    /\ mbranch = ""

InitMess == WriterIdle /\ RowIdle /\ MessInit /\ DetIdle /\ CatIdle

CallIntroduceMessiness ==
    /\ mpc = "call"
    /\ margs.fn = "introduce_messiness"
    /\ mresult' \in introduce_messiness(margs.value, margs.column_name, margs.rate)
    /\ mpc' = "returned"
    /\ UNCHANGED <<margs, mbranch>>
    /\ UNCHANGED <<writerVars, rowVars, detVars, catVars>>

CallIntroduceError ==
    /\ mpc = "call"
    /\ margs.fn = "introduce_error"
    /\ mresult' \in introduce_error(margs.value, margs.rate)
    /\ mpc' = "returned"
    /\ UNCHANGED <<margs, mbranch>>
    /\ UNCHANGED <<writerVars, rowVars, detVars, catVars>>

NextMess == CallIntroduceMessiness \/ CallIntroduceError

SpecMess == InitMess /\ [][NextMess]_vars

\* C10: called on a missing value (None or NaN), under any column name and
\* any rate, introduce_messiness and introduce_error return normally and
\* return the value they were given.
C10_MissingIsNoOp ==
    (mpc = "returned" /\ IsMissing(margs.value)) => mresult = margs.value

\* C10, as far as it is about introduce_error alone.
C10_IntroduceErrorOnMissing ==
    (mpc = "returned" /\ margs.fn = "introduce_error" /\ IsMissing(margs.value))
        => mresult = margs.value

\* C10's failing call: introduce_messiness(None, 'customer_email', 1.0)
\* ends in None.replace, an AttributeError.
C10_RaisesOnMissingEmail ==
    ~ ( /\ mpc = "returned"
        /\ margs.fn = "introduce_messiness"
        /\ margs.value = PyNone
        /\ margs.column_name = "customer_email"
        /\ mresult = PyRaise("AttributeError") )

(***************************************************************************)
(* generate_batch_data, one row at a time.  A row's cells are computed     *)
(* column by column; the specifications below each follow the columns      *)
(* that depend on one another.                                             *)
(***************************************************************************)
Unset == [tag |-> "unset", s |-> "", n |-> 0]

\* setup_other_lookups
payment_statuses == <<"success", "failed", "pending">>

Range(seq) == {seq[i] : i \in 1..Len(seq)}

\* random.choice(seq): the values it can return
Choice(seq) == Range(seq)

\* A slip: the two branches exchanged.
get_order_status_for_payment_swapped(payment_status) ==
    IF payment_status = "failed" THEN Choice(<<"delivered", "shipped">>)
    ELSE IF payment_status = "success" THEN Choice(<<"pending", "cancelled">>)
    ELSE {"pending"}

\* A slip: a pending payment treated like a failed one.
get_order_status_for_payment_pending_as_failed(payment_status) ==
    IF payment_status \in {"failed", "pending"}
    THEN Choice(<<"pending", "cancelled">>)
    ELSE IF payment_status = "success" THEN Choice(<<"delivered", "shipped">>)
    ELSE {"pending"}

\* lines 307-316: the order statuses the call can return
get_order_status_for_payment(payment_status) ==
    IF payment_status = "failed" THEN Choice(<<"pending", "cancelled">>)
    ELSE IF payment_status = "success" THEN Choice(<<"delivered", "shipped">>)
    ELSE IF payment_status = "pending" THEN {"pending"}
    ELSE {"pending"}

(***************************************************************************)
(* SpecStatus: payment_statuses, order_statuses and the two cells made     *)
(* from them.                                                              *)
(***************************************************************************)
StatusInit ==
    /\ gpc = "payment_statuses"
    /\ row = [payment_statuses |-> Unset, order_statuses |-> Unset,
              order_status |-> Unset, payment_status |-> Unset]

InitStatus == WriterIdle /\ StatusInit /\ MessIdle /\ DetIdle /\ CatIdle

\* line 456
DrawPaymentStatus ==
    /\ gpc = "payment_statuses"
    /\ \E ps \in Choice(payment_statuses) :
          row' = [row EXCEPT !.payment_statuses = PyStr(ps)]
    /\ gpc' = "order_statuses"
    /\ UNCHANGED <<writerVars, messVars, detVars, catVars>>

\* line 457
DeriveOrderStatus ==
    /\ gpc = "order_statuses"
    /\ \E os \in get_order_status_for_payment(row.payment_statuses.s) :
          row' = [row EXCEPT !.order_statuses = PyStr(os)]
    /\ gpc' = "order_status"
    /\ UNCHANGED <<writerVars, messVars, detVars, catVars>>

\* line 459
MessOrderStatus ==
    /\ gpc = "order_status"
    /\ \E v \in introduce_messiness(row.order_statuses, "order_status",
                                    MessinessRate["order_status"]) :
          row' = [row EXCEPT !.order_status = v]
    /\ gpc' = "payment_status"
    /\ UNCHANGED <<writerVars, messVars, detVars, catVars>>

\* line 571
MessPaymentStatus ==
    /\ gpc = "payment_status"
    /\ \E v \in introduce_messiness(row.payment_statuses, "payment_status",
                                    MessinessRate["payment_status"]) :
          row' = [row EXCEPT !.payment_status = v]
    /\ gpc' = "done"
    /\ UNCHANGED <<writerVars, messVars, detVars, catVars>>

NextStatus ==
    \/ DrawPaymentStatus
    \/ DeriveOrderStatus
    \/ MessOrderStatus
    \/ MessPaymentStatus

SpecStatus == InitStatus /\ [][NextStatus]_vars

\* failed gives pending or cancelled, success gives delivered or shipped
Correlated(payment, order) ==
    /\ payment = PyStr("failed") =>
          order \in {PyStr("pending"), PyStr("cancelled")}
    /\ payment = PyStr("success") =>
          order \in {PyStr("delivered"), PyStr("shipped")}

\* C2, as stated: in every emitted row the payment_status and order_status
\* cells are correlated: failed with pending or cancelled, success with
\* delivered or shipped.
C2_CellsCorrelated ==
    gpc = "done" => Correlated(row.payment_status, row.order_status)

\* C2, amended: the payment status and the order status derived from it are
\* correlated as drawn, before introduce_messiness; and so are the emitted
\* cells whenever introduce_messiness returned the order status as it was.
C2_CleanCorrelated ==
    /\ gpc \in {"order_status", "payment_status", "done"} =>
          Correlated(row.payment_statuses, row.order_statuses)
    /\ (gpc = "done" /\ row.order_status = row.order_statuses) =>
          Correlated(row.payment_status, row.order_status)

\* C2's case: an emitted row with a failed payment and a cancelled order.
C2_Witness ==
    /\ gpc = "done"
    /\ row.payment_status = PyStr("failed")
    /\ row.order_status = PyStr("cancelled")
    /\ row.order_status = row.order_statuses

\* The order statuses the claim allows for a payment status.
AllowedOrderStatuses(payment_status) ==
    IF payment_status = "failed" THEN {"pending", "cancelled"}
    ELSE IF payment_status = "success" THEN {"delivered", "shipped"}
    ELSE {"pending"}

\* C17: the order status is derived from the payment status as drawn, before
\* either goes through introduce_messiness: failed gives pending or
\* cancelled, success gives delivered or shipped, pending and any status
\* not recognised give pending; and making one of the two cells leaves the
\* other cell and both drawn values as they were.
C17_CorrelateThenCorrupt ==
    /\ [](/\ gpc \in {"payment_statuses", "order_statuses"} =>
                row.order_status = Unset /\ row.payment_status = Unset
          /\ gpc \in {"order_status", "payment_status", "done"} =>
                row.order_statuses.s
                    \in AllowedOrderStatuses(row.payment_statuses.s)
          /\ \A payment_status \in
                   {"success", "failed", "pending", "refunded", "SUCCESS", ""} :
                get_order_status_for_payment(payment_status)
                    \subseteq AllowedOrderStatuses(payment_status))
    /\ [][/\ gpc = "order_status" =>
                /\ row'.payment_status = row.payment_status
                /\ row'.payment_statuses = row.payment_statuses
                /\ row'.order_statuses = row.order_statuses
          /\ gpc = "payment_status" =>
                /\ row'.order_status = row.order_status
                /\ row'.payment_statuses = row.payment_statuses
                /\ row'.order_statuses = row.order_statuses]_vars

\* C17's case: a successful payment with a shipped order, the order status
\* cell changed by introduce_messiness and the payment status cell as drawn.
C17_Witness ==
    /\ gpc = "done"
    /\ row.payment_statuses = PyStr("success")
    /\ row.order_statuses = PyStr("shipped")
    /\ row.order_status # row.order_statuses
    /\ row.payment_status = PyStr("success")

(***************************************************************************)
(* The geography catalog (setup_geography_with_real_zips).                 *)
(***************************************************************************)
\* lines 34-55, in the order of the dict: city, state, ZIP codes
city_zip_mapping ==
    <<
       <<"New York", "NY", <<"10001", "10002", "10003", "10004", "10005", "10010", "10011", "10012", "10013", "10014">>>>,
       <<"Los Angeles", "CA", <<"90001", "90002", "90003", "90004", "90005", "90210", "90211", "90212", "90213", "90220">>>>,
       <<"Chicago", "IL", <<"60601", "60602", "60603", "60604", "60605", "60610", "60611", "60612", "60613", "60614">>>>,
       <<"Houston", "TX", <<"77001", "77002", "77003", "77004", "77005", "77010", "77011", "77012", "77013", "77014">>>>,
       <<"Phoenix", "AZ", <<"85001", "85002", "85003", "85004", "85005", "85006", "85007", "85008", "85009", "85010">>>>,
       <<"Philadelphia", "PA", <<"19101", "19102", "19103", "19104", "19105", "19106", "19107", "19108", "19109", "19110">>>>,
       <<"San Antonio", "TX", <<"78201", "78202", "78203", "78204", "78205", "78210", "78211", "78212", "78213", "78214">>>>,
       <<"San Diego", "CA", <<"92101", "92102", "92103", "92104", "92105", "92106", "92107", "92108", "92109", "92110">>>>,
       <<"Dallas", "TX", <<"75201", "75202", "75203", "75204", "75205", "75206", "75207", "75208", "75209", "75210">>>>,
       <<"San Jose", "CA", <<"95101", "95102", "95103", "95104", "95105", "95106", "95107", "95108", "95109", "95110">>>>,
       <<"Austin", "TX", <<"78701", "78702", "78703", "78704", "78705", "78710", "78711", "78712", "78713", "78714">>>>,
       <<"Jacksonville", "FL", <<"32201", "32202", "32203", "32204", "32205", "32206", "32207", "32208", "32209", "32210">>>>,
       <<"Fort Worth", "TX", <<"76101", "76102", "76103", "76104", "76105", "76106", "76107", "76108", "76109", "76110">>>>,
       <<"Columbus", "OH", <<"43201", "43202", "43203", "43204", "43205", "43206", "43207", "43208", "43209", "43210">>>>,
       <<"Charlotte", "NC", <<"28201", "28202", "28203", "28204", "28205", "28206", "28207", "28208", "28209", "28210">>>>,
       <<"Seattle", "WA", <<"98101", "98102", "98103", "98104", "98105", "98106", "98107", "98108", "98109", "98110">>>>,
       <<"Denver", "CO", <<"80201", "80202", "80203", "80204", "80205", "80206", "80207", "80208", "80209", "80210">>>>,
       <<"Boston", "MA", <<"02101", "02102", "02103", "02104", "02105", "02106", "02107", "02108", "02109", "02110">>>>,
       <<"Nashville", "TN", <<"37201", "37202", "37203", "37204", "37205", "37206", "37207", "37208", "37209", "37210">>>>,
       <<"Baltimore", "MD", <<"21201", "21202", "21203", "21204", "21205", "21206", "21207", "21208", "21209", "21210">>>>
    >>

\* line 58
cities_states ==
    [i \in 1..Len(city_zip_mapping) |->
        <<city_zip_mapping[i][1], city_zip_mapping[i][2]>>]

\* city_zip_mapping[(city, state)], for a key of the dict
ZipsOf(city, state) ==
    LET i == CHOOSE j \in 1..Len(city_zip_mapping) :
                 cities_states[j] = <<city, state>>
    IN  city_zip_mapping[i][3]

\* A slip: line 65 outside the inner loop, so that only the last ZIP of
\* each pair is entered.
valid_zips_only_last ==
    [z \in {city_zip_mapping[i][3][Len(city_zip_mapping[i][3])] :
               i \in 1..Len(city_zip_mapping)} |->
        LET i == CHOOSE j \in 1..Len(city_zip_mapping) :
                     z = city_zip_mapping[j][3][Len(city_zip_mapping[j][3])]
        IN  [city |-> city_zip_mapping[i][1],
             state |-> city_zip_mapping[i][2]]]

\* lines 61-65: each ZIP maps to the last pair of the dict that lists it
valid_zips ==
    LET all == UNION {Range(city_zip_mapping[i][3]) :
                          i \in 1..Len(city_zip_mapping)}
        last(z) == CHOOSE i \in 1..Len(city_zip_mapping) :
                      /\ z \in Range(city_zip_mapping[i][3])
                      /\ \A j \in (i + 1)..Len(city_zip_mapping) :
                            z \notin Range(city_zip_mapping[j][3])
    IN  [z \in all |-> [city |-> city_zip_mapping[last(z)][1],
                        state |-> city_zip_mapping[last(z)][2]]]

\* A slip: the lookup by key dropped, only the fallback left.
get_zip_for_city_state_any(city, state) == DOMAIN valid_zips

\* lines 69-76: the ZIP codes the call can return
get_zip_for_city_state(city, state) ==
    IF <<city, state>> \in Range(cities_states)
    THEN Choice(ZipsOf(city, state))
    ELSE DOMAIN valid_zips

(***************************************************************************)
(* SpecShip: the customer's city and state, the shipping city and state    *)
(* and the shipping ZIP.                                                   *)
(***************************************************************************)
\* customer_cities and customer_states are the clean lists, customer_city
\* and customer_state the cells; echoed records which branch of line 592
\* the row took.
ShipInit ==
    /\ gpc = "customer_geography"
    /\ row = [customer_cities |-> "", customer_states |-> "",
              customer_city |-> Unset, customer_state |-> Unset,
              echoed |-> FALSE,
              shipping_city |-> "", shipping_state |-> "",
              shipping_zip |-> ""]

InitShip == WriterIdle /\ ShipInit /\ MessIdle /\ DetIdle /\ CatIdle

\* lines 512-515
DrawCustomerCityState ==
    /\ gpc = "customer_geography"
    /\ \E cs \in Choice(cities_states) :
          row' = [row EXCEPT !.customer_cities = cs[1],
                             !.customer_states = cs[2]]
    /\ gpc' = "customer_city"
    /\ UNCHANGED <<writerVars, messVars, detVars, catVars>>

\* lines 517-518
MessCustomerCityState ==
    /\ gpc = "customer_city"
    /\ \E c \in introduce_messiness(PyStr(row.customer_cities),
                    "customer_city", MessinessRate["customer_city"]) :
       \E s \in introduce_messiness(PyStr(row.customer_states),
                    "customer_state", MessinessRate["customer_state"]) :
          row' = [row EXCEPT !.customer_city = c, !.customer_state = s]
    /\ gpc' = "shipping_city_state"
    /\ UNCHANGED <<writerVars, messVars, detVars, catVars>>

\* lines 592-594, 598-599, 607-608: the customer's pair echoed
EchoCustomerCityState ==
    /\ gpc = "shipping_city_state"
    /\ row' = [row EXCEPT !.shipping_city = row.customer_cities,
                          !.shipping_state = row.customer_states,
                          !.echoed = TRUE]
    /\ gpc' = "shipping_zip"
    /\ UNCHANGED <<writerVars, messVars, detVars, catVars>>

\* lines 595-599, 607-608: a pair drawn on its own
DrawShippingCityState ==
    /\ gpc = "shipping_city_state"
    /\ \E cs \in Choice(cities_states) :
          row' = [row EXCEPT !.shipping_city = cs[1],
                             !.shipping_state = cs[2],
                             !.echoed = FALSE]
    /\ gpc' = "shipping_zip"
    /\ UNCHANGED <<writerVars, messVars, detVars, catVars>>

\* lines 601-603, 609
ResolveShippingZip ==
    /\ gpc = "shipping_zip"
    /\ \E correct_zip \in
              get_zip_for_city_state(row.shipping_city, row.shipping_state) :
          row' = [row EXCEPT !.shipping_zip = correct_zip]
    /\ gpc' = "done"
    /\ UNCHANGED <<writerVars, messVars, detVars, catVars>>

NextShip ==
    \/ DrawCustomerCityState
    \/ MessCustomerCityState
    \/ EchoCustomerCityState
    \/ DrawShippingCityState
    \/ ResolveShippingZip

SpecShip == InitShip /\ [][NextShip]_vars

\* C3: the shipping_zip of an emitted row (which nothing corrupts) is in the
\* catalog's ZIP list of the row's shipping city and state, whether the pair
\* echoes the customer's or was drawn on its own.
C3_ZipOfShippingCity ==
    gpc = "done" =>
        /\ <<row.shipping_city, row.shipping_state>> \in Range(cities_states)
        /\ \E i \in 1..Len(city_zip_mapping) :
              /\ city_zip_mapping[i][1] = row.shipping_city
              /\ city_zip_mapping[i][2] = row.shipping_state
              /\ row.shipping_zip \in Range(city_zip_mapping[i][3])

\* C3's case: a shipping pair drawn on its own, other than the customer's.
C3_Witness ==
    /\ gpc = "done"
    /\ ~row.echoed
    /\ row.customer_cities = "Boston"
    /\ row.shipping_city = "Austin"
    /\ row.shipping_state = "TX"
    /\ row.shipping_zip = "78705"

\* C3's other case: the customer's pair echoed.
C3_WitnessEcho ==
    /\ gpc = "done"
    /\ row.echoed
    /\ row.shipping_city = "Boston"
    /\ row.shipping_zip = "02110"

(***************************************************************************)
(* The calendar (setup_date_range) and the dates of a row.  A datetime is  *)
(* kept as its number of days from start_date, 2024-01-01, a Monday:       *)
(* datetime - timedelta(days=k) is that number less k.                     *)
(***************************************************************************)
\* lines 278-279: the days from start_date to end_date, both counted
DaysInRange == 91

\* lines 282-292: datetime_obj of each entry of self.dates
dates == [i \in 1..DaysInRange |-> i - 1]

\* datetime.weekday(): Monday is 0
Weekday(d) == d % 7

\* lines 400-407
date_formats ==
    <<"%Y-%m-%d", "%Y/%m/%d", "%d-%b-%Y", "%d %B %Y", "%b %d, %Y", "%B %d, %Y">>

\* line 503: the bounds of random.randint(30, 1095)
MinDaysBefore == 30
MaxDaysBefore == 1095

\* datetime.strftime(fmt): the text is kept as the date and the format that
\* wrote it.
strftime(d, fmt) == [day |-> d, fmt |-> fmt]

\* A slip: the offset added.
RegistrationDate_after(order_date, days_before) == order_date + days_before

\* line 504
RegistrationDate(order_date, days_before) == order_date - days_before

(***************************************************************************)
(* SpecDates: the order date of a row and its registration date.           *)
(***************************************************************************)
DatesInit ==
    /\ gpc = "selected_dates"
    /\ row = [selected_dates |-> 0,
              order_date |-> strftime(0, ""),
              days_before |-> 0,
              reg_date |-> 0,
              customer_registration_date |-> strftime(0, "")]

InitDates == WriterIdle /\ DatesInit /\ MessIdle /\ DetIdle /\ CatIdle

\* lines 433-437, 441: the date drawn is kept (a weekend day, or a weekday
\* with random.random() < 0.7)
SelectDrawnDate ==
    /\ gpc = "selected_dates"
    /\ \E date_info \in Choice(dates) :
          row' = [row EXCEPT !.selected_dates = date_info]
    /\ gpc' = "order_date"
    /\ UNCHANGED <<writerVars, messVars, detVars, catVars>>

\* lines 433-439: a weekday is drawn and, random.random() >= 0.7, replaced
\* by a second draw
SelectRedrawnDate ==
    /\ gpc = "selected_dates"
    /\ \E date_info \in Choice(dates) :
          /\ Weekday(date_info) < 5
          /\ \E again \in Choice(dates) :
                row' = [row EXCEPT !.selected_dates = again]
    /\ gpc' = "order_date"
    /\ UNCHANGED <<writerVars, messVars, detVars, catVars>>

\* lines 446-452
FormatOrderDate ==
    /\ gpc = "order_date"
    /\ \E fmt \in Choice(date_formats) :
          row' = [row EXCEPT !.order_date = strftime(row.selected_dates, fmt)]
    /\ gpc' = "reg_dates"
    /\ UNCHANGED <<writerVars, messVars, detVars, catVars>>

\* lines 499-507
DrawRegistrationDate ==
    /\ gpc = "reg_dates"
    /\ \E fmt \in Choice(date_formats) :
       \E days_before \in MinDaysBefore..MaxDaysBefore :
          LET order_date == row.selected_dates
              reg_date == RegistrationDate(order_date, days_before)
          IN  row' = [row EXCEPT
                         !.days_before = days_before,
                         !.reg_date = reg_date,
                         !.customer_registration_date = strftime(reg_date, fmt)]
    /\ gpc' = "done"
    /\ UNCHANGED <<writerVars, messVars, detVars, catVars>>

NextDates ==
    \/ SelectDrawnDate
    \/ SelectRedrawnDate
    \/ FormatOrderDate
    \/ DrawRegistrationDate

SpecDates == InitDates /\ [][NextDates]_vars

\* C4: in every row the registration date, as a date, is strictly earlier
\* than the order date, by 30 to 1095 days.
C4_RegistrationBeforeOrder ==
    gpc = "done" =>
        /\ row.reg_date < row.selected_dates
        /\ row.selected_dates - row.reg_date >= 30
        /\ row.selected_dates - row.reg_date <= 1095
        /\ row.customer_registration_date.day = row.reg_date
        /\ row.order_date.day = row.selected_dates

\* C4's case: the smallest offset, registration 30 days before an order of
\* the last day of the quarter.
C4_Witness ==
    /\ gpc = "done"
    /\ row.selected_dates = 90
    /\ row.reg_date = 60

\* C4's other end: the largest offset.
C4_WitnessLargest ==
    /\ gpc = "done"
    /\ row.selected_dates = 0
    /\ row.reg_date = -1095

(***************************************************************************)
(* SpecDet: the generator run twice from the same seed.  Each run seeds    *)
(* random, sets its customers up and generates DetRows rows.               *)
(*                                                                         *)
(* random is a deterministic generator: its state after random.seed(seed)  *)
(* is a function of seed, and every draw is a function of the state.  A    *)
(* small congruential generator stands for it.  uuid.uuid4() reads the     *)
(* operating system's entropy and not the state of random.                 *)
(***************************************************************************)
\* line 13: the state of random after random.seed(seed)
Seeded(s) == s % 16

\* the state of random after one more draw
NextRandom(state) == (5 * state + 3) % 16

RECURSIVE Advance(_, _)
\* the state of random after k more draws
Advance(state, k) == IF k = 0 THEN state ELSE Advance(NextRandom(state), k - 1)

\* random.randint(a, b) from the draw that led to state
randint(state, a, b) == a + (state % (b - a + 1))

\* random.choice(seq) from the draw that led to state
choice(state, seq) == seq[1 + (state % Len(seq))]

\* uuid.uuid4(): the ids it can return
uuid4 == 1..NumUuids

\* lines 164-166: the ends of the slices customer_ids[:500] and [500:1250]
HeavyEnd == 500
ModerateEnd == 1250

\* seq[lo:hi] of Python, lo and hi counted from 0
Slice(seq, lo, hi) == SubSeq(seq, Min(lo, Len(seq)) + 1, Min(hi, Len(seq)))

RECURSIVE Repeat(_, _)
\* seq * k
Repeat(seq, k) == IF k = 0 THEN << >> ELSE seq \o Repeat(seq, k - 1)

\* line 159: list(self.customers.keys()), customers kept in the order of
\* the dict
CustomerIds(customers) == [i \in 1..Len(customers) |-> customers[i].id]

\* A slip: the second slice started one customer late.
WeightedCustomers_gap(customer_ids) ==
    Repeat(Slice(customer_ids, 0, HeavyEnd), 8)
        \o Repeat(Slice(customer_ids, HeavyEnd + 1, ModerateEnd), 3)
        \o Slice(customer_ids, ModerateEnd, Len(customer_ids))

\* lines 164-169
WeightedCustomers(customer_ids) ==
    Repeat(Slice(customer_ids, 0, HeavyEnd), 8)
        \o Repeat(Slice(customer_ids, HeavyEnd, ModerateEnd), 3)
        \o Slice(customer_ids, ModerateEnd, Len(customer_ids))

\* line 147: self.customers[customer_id] = {...}: a new key is added at the
\* end of the dict, a key already there keeps its place and takes the value
DictPut(customers, id, age) ==
    IF \E i \in 1..Len(customers) : customers[i].id = id
    THEN [i \in 1..Len(customers) |->
             IF customers[i].id = id THEN [id |-> id, age |-> age]
             ELSE customers[i]]
    ELSE Append(customers, [id |-> id, age |-> age])

\* self.customers[cid]['age']
DetInit ==
    /\ seed \in 0..MaxSeed
    /\ runs = [r \in 1..2 |->
                  [pc |-> "seed", random |-> 0, named |-> 0,
                   customers |-> << >>, file |-> << >>]]

InitDet == WriterIdle /\ RowIdle /\ MessIdle /\ DetInit /\ CatIdle

\* The second run starts when the first has ended.
MayStep(r) == r = 1 \/ runs[1].pc = "done"

\* lines 12-13
SeedRandom(r) ==
    /\ MayStep(r)
    /\ runs[r].pc = "seed"
    /\ runs' = [runs EXCEPT ![r].random = Seeded(seed),
                            ![r].pc = "setup_customers"]
    /\ UNCHANGED seed
    /\ UNCHANGED <<writerVars, rowVars, messVars, catVars>>

\* lines 143-156, one customer: the id from uuid4, the phone (four draws),
\* the age and the gender from random
SetupCustomer(r) ==
    /\ MayStep(r)
    /\ runs[r].pc = "setup_customers"
    /\ runs[r].named < NumNames
    /\ \E customer_id \in uuid4 :
          LET after_phone == Advance(runs[r].random, 4)
              after_age == NextRandom(after_phone)
              after_gender == NextRandom(after_age)
          IN  runs' = [runs EXCEPT
                          ![r].customers =
                              DictPut(@, customer_id, randint(after_age, 18, 80)),
                          ![r].named = @ + 1,
                          ![r].random = after_gender]
    /\ UNCHANGED seed
    /\ UNCHANGED <<writerVars, rowVars, messVars, catVars>>

\* lines 158-171 and the other setup methods: the catalogs are built
FinishSetup(r) ==
    /\ MayStep(r)
    /\ runs[r].pc = "setup_customers"
    /\ runs[r].named = NumNames
    /\ runs' = [runs EXCEPT ![r].pc = "generate"]
    /\ UNCHANGED seed
    /\ UNCHANGED <<writerVars, rowVars, messVars, catVars>>

\* lines 398, 456, 465, 470, 494, 571 for one row, and its line of the file
GenerateRow(r) ==
    /\ MayStep(r)
    /\ runs[r].pc = "generate"
    /\ Len(runs[r].file) < DetRows
    /\ \E order_id \in uuid4 :
          LET after_payment == NextRandom(runs[r].random)
              after_customer == NextRandom(after_payment)
              weighted_customers ==
                  WeightedCustomers(CustomerIds(runs[r].customers))
              customer_id == choice(after_customer, weighted_customers)
              age == (CHOOSE c \in Range(runs[r].customers) :
                          c.id = customer_id).age
          IN  runs' = [runs EXCEPT
                          ![r].file = Append(@,
                              [order_id |-> order_id,
                               payment_status |->
                                   choice(after_payment, payment_statuses),
                               customer_id |-> customer_id,
                               customer_age |-> age]),
                          ![r].random = after_customer]
    /\ UNCHANGED seed
    /\ UNCHANGED <<writerVars, rowVars, messVars, catVars>>

\* generate_csv returns
FinishRun(r) ==
    /\ MayStep(r)
    /\ runs[r].pc = "generate"
    /\ Len(runs[r].file) = DetRows
    /\ runs' = [runs EXCEPT ![r].pc = "done"]
    /\ UNCHANGED seed
    /\ UNCHANGED <<writerVars, rowVars, messVars, catVars>>

NextDet ==
    \E r \in 1..2 :
        \/ SeedRandom(r)
        \/ SetupCustomer(r)
        \/ FinishSetup(r)
        \/ GenerateRow(r)
        \/ FinishRun(r)

SpecDet == InitDet /\ [][NextDet]_vars

BothDone == runs[1].pc = "done" /\ runs[2].pc = "done"

\* C1: two runs from the same seed, with the same configuration, write the
\* same file, customer_id and order_id included.
C1_SameSeedSameFile ==
    BothDone => runs[1].file = runs[2].file

\* C1, for what random alone decides: the two runs end in the same state of
\* random and agree on the payment_status column.
C1_SeededDrawsAgree ==
    BothDone =>
        /\ runs[1].random = runs[2].random
        /\ \A i \in 1..DetRows :
              runs[1].file[i].payment_status = runs[2].file[i].payment_status


(***************************************************************************)
(* SpecRefund: the return and refund statuses of one row and the two       *)
(* cells made from them (lines 574-576).                                   *)
(***************************************************************************)
\* line 305
return_values == <<"yes", "no", "pending", "true", "false", "1", "0">>

\* A slip: the refund status drawn like the return status, from all values.
RefundFor_uncorrelated(return_status) == Choice(return_values)

\* lines 323-328: the refund statuses that can go with a return status
RefundFor(return_status) ==
    IF return_status \in Range(<<"yes", "true", "1">>)
    THEN Choice(<<"yes", "true", "1">>)
    ELSE IF return_status \in Range(<<"pending">>)
    THEN {"pending"}
    ELSE Choice(<<"no", "false", "0">>)

\* lines 318-330: the pairs the call can return
get_return_refund_pair ==
    UNION { { <<return_status, refund_status>> :
                refund_status \in RefundFor(return_status) } :
            return_status \in Choice(return_values) }

RefundInit ==
    /\ gpc = "return_refund_pairs"
    /\ row = [return_refund_pairs |-> Unset, order_returned |-> Unset,
              payment_refunded |-> Unset]

InitRefund == WriterIdle /\ RefundInit /\ MessIdle /\ DetIdle /\ CatIdle

\* line 574
DrawReturnRefundPair ==
    /\ gpc = "return_refund_pairs"
    /\ \E pair \in get_return_refund_pair :
          row' = [row EXCEPT !.return_refund_pairs = pair]
    /\ gpc' = "order_returned"
    /\ UNCHANGED <<writerVars, messVars, detVars, catVars>>

\* line 575
MessOrderReturned ==
    /\ gpc = "order_returned"
    /\ \E v \in introduce_messiness(PyStr(row.return_refund_pairs[1]),
                                    "order_returned",
                                    MessinessRate["order_returned"]) :
          row' = [row EXCEPT !.order_returned = v]
    /\ gpc' = "payment_refunded"
    /\ UNCHANGED <<writerVars, messVars, detVars, catVars>>

\* line 576
MessPaymentRefunded ==
    /\ gpc = "payment_refunded"
    /\ \E v \in introduce_messiness(PyStr(row.return_refund_pairs[2]),
                                    "payment_refunded",
                                    MessinessRate["payment_refunded"]) :
          row' = [row EXCEPT !.payment_refunded = v]
    /\ gpc' = "done"
    /\ UNCHANGED <<writerVars, messVars, detVars, catVars>>

NextRefund ==
    \/ DrawReturnRefundPair
    \/ MessOrderReturned
    \/ MessPaymentRefunded

SpecRefund == InitRefund /\ [][NextRefund]_vars

\* C13: in every pair get_return_refund_pair returns, a return status of
\* yes, true or 1 goes with a refund status of yes, true or 1; pending goes
\* with pending; and no, false or 0 goes with no, false or 0, never pending.
C13_RefundFollowsReturn ==
    gpc # "return_refund_pairs" =>
        LET return_status == row.return_refund_pairs[1]
            refund_status == row.return_refund_pairs[2]
        IN  /\ return_status \in {"yes", "true", "1", "pending",
                                  "no", "false", "0"}
            /\ return_status \in {"yes", "true", "1"} =>
                  refund_status \in {"yes", "true", "1"}
            /\ return_status = "pending" => refund_status = "pending"
            /\ return_status \in {"no", "false", "0"} =>
                  /\ refund_status \in {"no", "false", "0"}
                  /\ refund_status # "pending"

\* C13's case: a row whose pair is a return of no with a refund of false.
C13_Witness ==
    /\ gpc = "done"
    /\ row.return_refund_pairs = <<"no", "false">>

\* C13's other cases: a pending pair, and a return of 1 refunded as yes.
C13_WitnessPending ==
    /\ gpc = "done"
    /\ row.return_refund_pairs = <<"pending", "pending">>
C13_WitnessYes ==
    /\ gpc = "done"
    /\ row.return_refund_pairs = <<"1", "yes">>


(***************************************************************************)
(* SpecCat: the lookup catalogs of one MessyEcommerceGenerator: __init__   *)
(* builds them, one setup method after the other, and the calls made on    *)
(* the object afterwards read them.                                        *)
(***************************************************************************)
\* lines 109-123: the lengths of first_names and last_names
NumFirstNames == 50
NumLastNames == 50

\* lines 178-209: the categories and the subcategories of each
NumCategories == 5
NumSubcategories == 10

\* line 217: random.randint(8, 12)
MinProducts == 8
MaxProducts == 12

\* line 264: range(5)
WarehousesPerCity == 5

\* The calls followed on one object.
MaxCalls == 2

\* The customers uuid.uuid4() may give the id it returned just before,
\* instead of a new one (0: none): the second, the last, and those at the
\* ends of the slices of lines 164-166.
CollisionSites ==
    {0, 2, HeavyEnd, HeavyEnd + 1, ModerateEnd, ModerateEnd + 1,
     NumFirstNames * NumLastNames}

\* lines 109-115
first_names ==
    << "James", "Robert", "John", "Michael", "David", "William",
       "Richard", "Joseph", "Thomas", "Christopher", "Charles", "Daniel",
       "Matthew", "Anthony", "Mark", "Donald", "Steven", "Paul",
       "Andrew", "Kenneth", "Joshua", "Kevin", "Brian", "George",
       "Timothy", "Ronald", "Jason", "Edward", "Jeffrey", "Ryan",
       "Jacob", "Gary", "Nicholas", "Eric", "Jonathan", "Stephen",
       "Larry", "Justin", "Scott", "Brandon", "Benjamin", "Samuel",
       "Gregory", "Alexander", "Patrick", "Frank", "Raymond", "Jack",
       "Dennis", "Jerry" >>

\* lines 117-123
last_names ==
    << "Smith", "Johnson", "Williams", "Brown", "Jones", "Garcia",
       "Miller", "Davis", "Rodriguez", "Martinez", "Hernandez", "Lopez",
       "Gonzalez", "Wilson", "Anderson", "Thomas", "Taylor", "Moore",
       "Jackson", "Martin", "Lee", "Perez", "Thompson", "White",
       "Harris", "Sanchez", "Clark", "Ramirez", "Lewis", "Robinson",
       "Walker", "Young", "Allen", "King", "Wright", "Scott",
       "Torres", "Nguyen", "Hill", "Flores", "Green", "Adams",
       "Nelson", "Baker", "Hall", "Rivera", "Campbell", "Mitchell",
       "Carter", "Roberts" >>

\* line 153: random.randint(18, 80), one draw for each customer
SampleAge(k) == 18 + (k % 63)

\* lines 129-142: generate_phone_num(), one draw for each customer: the
\* three randint and the choice among the five formats
SamplePhone(k) ==
    LET area == IntStr(200 + (k % 800))
        exchange == IntStr(200 + ((7 * k) % 800))
        number == IntStr(1000 + ((13 * k) % 9000))
        formats == << "(" \o area \o ") " \o exchange \o "-" \o number,
                      area \o "-" \o exchange \o "-" \o number,
                      area \o "." \o exchange \o "." \o number,
                      "+1" \o area \o exchange \o number,
                      area \o exchange \o number >>
    IN  formats[(k % 5) + 1]

\* lines 144-155: the value made for the k-th pair of names, the names
\* taken in the order of the two loops
CustomerValue(k) ==
    LET first_name == first_names[((k - 1) \div NumLastNames) + 1]
        last_name == last_names[((k - 1) % NumLastNames) + 1]
    IN  [full_name |-> first_name \o " " \o last_name,
         first_name |-> first_name,
         last_name |-> last_name,
         email |-> Lower(first_name) \o "." \o Lower(last_name)
                       \o "@gmail.com",
         phone |-> SamplePhone(k),
         age |-> SampleAge(k)]

\* lines 126-155, for n names: self.customers after the loop, in the order
\* of the dict, when uuid4 returned a new id every time (the k-th id is k)
\* but for customer `site`, given the id of the customer before: that key
\* keeps its place and holds the later customer's value.
CustomersAfterLoop(n, site) ==
    [p \in 1..(IF site = 0 THEN n ELSE n - 1) |->
        LET id == IF site # 0 /\ p >= site THEN p + 1 ELSE p
            value == CustomerValue(IF site # 0 /\ id = site - 1
                                   THEN site ELSE id)
        IN  [id |-> id, age |-> value.age, full_name |-> value.full_name,
             first_name |-> value.first_name, last_name |-> value.last_name,
             email |-> value.email, phone |-> value.phone]]

\* lines 164-166: the locals heavy_buyers, moderate_buyers, light_buyers
Tiers(customer_ids) ==
    [heavy_buyers |-> Slice(customer_ids, 0, HeavyEnd),
     moderate_buyers |-> Slice(customer_ids, HeavyEnd, ModerateEnd),
     light_buyers |-> Slice(customer_ids, ModerateEnd, Len(customer_ids))]

\* line 217, for each of the 50 subcategories: all 8, all 12, or mixed
ProductCounts ==
    LET n == NumCategories * NumSubcategories
        span == MaxProducts - MinProducts + 1
    IN  {[j \in 1..n |-> MinProducts], [j \in 1..n |-> MaxProducts],
         [j \in 1..n |-> MinProducts + (j % span)]}

\* lines 219-243: the product numbered product_num, of the category-th
\* category and the subcategory-th subcategory (counted through the
\* categories): the brand is one of the 8 of the category, the name is made
\* of the brand, the subcategory and one of the 6 (Electronics) or 5
\* suffixes, the list price is in hundredths and the cost 40 to 80 percent
\* of it; one draw of each for each product
ProductValue(product_num, category, subcategory) ==
    LET brand == (product_num % 8) + 1
        suffix == (product_num % (IF category = 1 THEN 6 ELSE 5)) + 1
        list_price == 100 + ((37 * product_num) % 4900)
    IN  [id |-> product_num,
         name |-> <<brand, subcategory, suffix>>,
         category |-> category,
         subcategory |-> subcategory,
         brand |-> brand,
         list_price |-> list_price,
         cost |-> (list_price * (40 + (product_num % 41))) \div 100]

RECURSIVE ProductsOf(_, _)
\* lines 211-245: the products of the first j subcategories, product_num
\* counting on from one subcategory to the next
ProductsOf(counts, j) ==
    IF j = 0 THEN << >>
    ELSE LET before == ProductsOf(counts, j - 1)
         IN  before \o
                 [i \in 1..counts[j] |->
                     ProductValue(Len(before) + i,
                                  ((j - 1) \div NumSubcategories) + 1, j)]

\* lines 254-257
warehouse_cities ==
    << <<"New York", "NY">>, <<"Los Angeles", "CA">>, <<"Chicago", "IL">>,
       <<"Houston", "TX">>, <<"Phoenix", "AZ">>, <<"Philadelphia", "PA">>,
       <<"San Antonio", "TX">>, <<"San Diego", "CA">>, <<"Dallas", "TX">>,
       <<"San Jose", "CA">> >>

\* lines 259-270
warehouses ==
    [n \in 1..(Len(warehouse_cities) * WarehousesPerCity) |->
        LET c == warehouse_cities[((n - 1) \div WarehousesPerCity) + 1]
        IN  [id |-> n, city |-> c[1], state |-> c[2], country |-> "US"]]

\* lines 298-305
other_lookups ==
    [order_statuses |->
         <<"pending", "confirmed", "shipped", "delivered", "cancelled">>,
     payment_methods |->
         <<"credit_card", "debit_card", "paypal", "apple_pay", "google_pay">>,
     payment_statuses |-> payment_statuses,
     shipping_methods |-> <<"standard", "express", "overnight">>,
     genders |-> <<"M", "F", "Other">>,
     return_values |-> return_values]

\* __init__ entered: no catalog is built yet
CatInit ==
    /\ cpc = "setup_customers"
    /\ catalogs = [customers |-> << >>, weighted_customers |-> << >>,
                   products |-> << >>, warehouses |-> << >>,
                   dates |-> << >>, city_zip_mapping |-> << >>,
                   cities_states |-> << >>, valid_zips |-> << >>,
                   other_lookups |-> << >>]
    /\ ncalls = 0

InitCat == WriterIdle /\ RowIdle /\ MessIdle /\ DetIdle /\ CatInit

\* line 21: setup_customers (lines 105-171)
SetupCustomers ==
    /\ cpc = "setup_customers"
    /\ \E site \in CollisionSites :
          LET customers == CustomersAfterLoop(NumFirstNames * NumLastNames, site)
          IN  catalogs' =
                  [catalogs EXCEPT
                      !.customers = customers,
                      !.weighted_customers =
                          WeightedCustomers(CustomerIds(customers))]
    /\ cpc' = "setup_products"
    /\ UNCHANGED ncalls
    /\ UNCHANGED <<writerVars, rowVars, messVars, detVars>>

\* line 22: setup_products (lines 173-247)
SetupProducts ==
    /\ cpc = "setup_products"
    /\ \E counts \in ProductCounts :
          catalogs' =
              [catalogs EXCEPT
                  !.products =
                      ProductsOf(counts, NumCategories * NumSubcategories)]
    /\ cpc' = "setup_warehouses"
    /\ UNCHANGED ncalls
    /\ UNCHANGED <<writerVars, rowVars, messVars, detVars>>

\* line 23: setup_warehouses (lines 249-272)
SetupWarehouses ==
    /\ cpc = "setup_warehouses"
    /\ catalogs' = [catalogs EXCEPT !.warehouses = warehouses]
    /\ cpc' = "setup_date_range"
    /\ UNCHANGED ncalls
    /\ UNCHANGED <<writerVars, rowVars, messVars, detVars>>

\* line 24: setup_date_range (lines 274-294)
SetupDateRange ==
    /\ cpc = "setup_date_range"
    /\ catalogs' = [catalogs EXCEPT !.dates = dates]
    /\ cpc' = "setup_geography"
    /\ UNCHANGED ncalls
    /\ UNCHANGED <<writerVars, rowVars, messVars, detVars>>

\* line 25: setup_geography_with_real_zips (lines 30-67)
SetupGeography ==
    /\ cpc = "setup_geography"
    /\ catalogs' = [catalogs EXCEPT
                       !.city_zip_mapping = city_zip_mapping,
                       !.cities_states = cities_states,
                       !.valid_zips = valid_zips]
    /\ cpc' = "setup_other_lookups"
    /\ UNCHANGED ncalls
    /\ UNCHANGED <<writerVars, rowVars, messVars, detVars>>

\* line 26: setup_other_lookups (lines 296-305)
SetupOtherLookups ==
    /\ cpc = "setup_other_lookups"
    /\ catalogs' = [catalogs EXCEPT !.other_lookups = other_lookups]
    /\ cpc' = "ready"
    /\ UNCHANGED ncalls
    /\ UNCHANGED <<writerVars, rowVars, messVars, detVars>>

\* The places random.choice is followed to in a list of n entries.
SampleIndices(n) == {1, (n + 1) \div 2, n}

\* A slip: the customer taken out of the list it is drawn from.
DrawCustomer_pop(weighted_customers, i) ==
    [customer_id |-> weighted_customers[i],
     weighted_customers |->
         SubSeq(weighted_customers, 1, i - 1)
             \o SubSeq(weighted_customers, i + 1, Len(weighted_customers))]

\* line 465: random.choice(self.weighted_customers) returning entry i: the
\* customer drawn, and the list as the draw leaves it
DrawCustomer(weighted_customers, i) ==
    [customer_id |-> weighted_customers[i],
     weighted_customers |-> weighted_customers]

\* lines 391-613: the catalogs after generate_batch_data.  The draw of line
\* 465 apart, the method indexes the catalogs (self.customers[cid][...],
\* self.products[pid][...], self.warehouses[wid][...]), iterates them
\* (self.warehouses.items()), copies their keys (list(self.products.keys()))
\* and passes them to random.choice; it assigns to none of them.
AfterBatch(self, i) ==
    [self EXCEPT
        !.weighted_customers = DrawCustomer(@, i).weighted_customers]

\* generate_batch_data called on the object
CallGenerateBatchData ==
    /\ cpc = "ready"
    /\ ncalls < MaxCalls
    /\ \E i \in SampleIndices(Len(catalogs.weighted_customers)) :
          catalogs' = AfterBatch(catalogs, i)
    /\ ncalls' = ncalls + 1
    /\ UNCHANGED cpc
    /\ UNCHANGED <<writerVars, rowVars, messVars, detVars>>

\* generate_csv called on the object: the batch of line 625 and a batch of
\* line 640
CallGenerateCsv ==
    /\ cpc = "ready"
    /\ ncalls < MaxCalls
    /\ \E i, j \in SampleIndices(Len(catalogs.weighted_customers)) :
          catalogs' = AfterBatch(AfterBatch(catalogs, i), j)
    /\ ncalls' = ncalls + 1
    /\ UNCHANGED cpc
    /\ UNCHANGED <<writerVars, rowVars, messVars, detVars>>

NextCat ==
    \/ SetupCustomers
    \/ SetupProducts
    \/ SetupWarehouses
    \/ SetupDateRange
    \/ SetupGeography
    \/ SetupOtherLookups
    \/ CallGenerateBatchData
    \/ CallGenerateCsv

SpecCat == InitCat /\ [][NextCat]_vars

\* How often each id stands in a list.
Occurrences(list) ==
    BagOfAll(LAMBDA i : list[i], SetToBag(1..Len(list)))

\* C14: once setup_customers has run, every id in weighted_customers is a
\* key of customers; the heavy, moderate and light tiers are disjoint and
\* together are all the customers; and a heavy customer stands 8 times in
\* weighted_customers, a moderate one 3 times, a light one once.
C14_WeightedCustomers ==
    cpc # "setup_customers" =>
        LET customer_ids == CustomerIds(catalogs.customers)
            keys == Range(customer_ids)
            tiers == Tiers(customer_ids)
            heavy == Range(tiers.heavy_buyers)
            moderate == Range(tiers.moderate_buyers)
            light == Range(tiers.light_buyers)
            occurs == Occurrences(catalogs.weighted_customers)
        IN  /\ Range(catalogs.weighted_customers) \subseteq keys
            /\ heavy \cup moderate \cup light = keys
            /\ heavy \cap moderate = {}
            /\ heavy \cap light = {}
            /\ moderate \cap light = {}
            /\ \A id \in heavy : CopiesIn(id, occurs) = 8
            /\ \A id \in moderate : CopiesIn(id, occurs) = 3
            /\ \A id \in light : CopiesIn(id, occurs) = 1

\* C14's case: the 2500 customers of the 50 x 50 names, 500 heavy, 750
\* moderate and 1250 light, in a list of 500*8 + 750*3 + 1250 entries.
C14_Witness ==
    /\ cpc = "ready"
    /\ Len(catalogs.customers) = 2500
    /\ Len(Tiers(CustomerIds(catalogs.customers)).moderate_buyers) = 750
    /\ Len(Tiers(CustomerIds(catalogs.customers)).light_buyers) = 1250
    /\ Len(catalogs.weighted_customers) = 7500

\* C14's other case: two customers given one id, 2499 keys.
C14_WitnessCollision ==
    /\ cpc = "ready"
    /\ Len(catalogs.customers) = 2499
    /\ Len(catalogs.weighted_customers) = 7499

\* C15: in the geography catalog no ZIP is listed for two different
\* (city, state) pairs, and valid_zips maps a ZIP to (city, state) exactly
\* when the ZIP is in the list of city_zip_mapping for (city, state).
C15_ZipsOfOnePair ==
    cpc \in {"setup_other_lookups", "ready"} =>
        LET mapping == catalogs.city_zip_mapping
            zips(i) == Range(mapping[i][3])
            pair(i) == [city |-> mapping[i][1], state |-> mapping[i][2]]
        IN  /\ \A i, j \in 1..Len(mapping) :
                  i # j => pair(i) # pair(j) /\ zips(i) \cap zips(j) = {}
            /\ \A i \in 1..Len(mapping) : \A z \in zips(i) :
                  /\ z \in DOMAIN catalogs.valid_zips
                  /\ catalogs.valid_zips[z] = pair(i)
            /\ \A z \in DOMAIN catalogs.valid_zips :
                  \E i \in 1..Len(mapping) :
                      z \in zips(i) /\ catalogs.valid_zips[z] = pair(i)

\* C15's case: the catalog of 20 pairs and 200 ZIP codes, 10001 among them.
C15_Witness ==
    /\ cpc = "ready"
    /\ Len(catalogs.city_zip_mapping) = 20
    /\ Cardinality(DOMAIN catalogs.valid_zips) = 200
    /\ catalogs.valid_zips["10001"] = [city |-> "New York", state |-> "NY"]

\* C16: once __init__ has built them, no call of generate_batch_data or of
\* generate_csv changes a catalog: customers, weighted_customers, products,
\* warehouses, dates, the geography maps and the enumerated lists.
C16_CatalogsUnchanged ==
    [][cpc = "ready" => catalogs' = catalogs]_vars

\* C16's case: two calls made on an object with its catalogs built.
C16_Witness ==
    /\ cpc = "ready"
    /\ ncalls = 2
    /\ Len(catalogs.weighted_customers) = 7500
    /\ Len(catalogs.products) > 0


(***************************************************************************)
(* SpecZip: create_messy_zip(correct_zip, city, state) as a function: one  *)
(* call on the ZIP of a catalog pair, and what it returns.                 *)
(***************************************************************************)
\* A slip: the test cs != (city, state) left out.
WrongCityStates_any(city, state) == Range(cities_states)

\* line 93: the list random.choice draws the wrong pair from
WrongCityStates(city, state) ==
    {cs \in Range(cities_states) : cs # <<city, state>>}

\* lines 93-94: the ZIP codes the mismatch branch can return
MismatchZips(city, state) ==
    UNION {get_zip_for_city_state(cs[1], cs[2]) :
               cs \in WrongCityStates(city, state)}

\* line 101: random.randint(10000, 99999)
MinFakeZip == 10000
MaxFakeZip == 99999

\* lines 78-103: what the call can return, with the branch that returned it
\* (the local error_type, "none" when random.random() > error_rate)
create_messy_zip(correct_zip, city, state) ==
    {[error_type |-> "none", value |-> PyStr(correct_zip)]}
        \cup {[error_type |-> "null", value |-> v] : v \in {PyNaN, PyNone}}
        \cup {[error_type |-> "mismatch", value |-> PyStr(z)] :
                  z \in MismatchZips(city, state)}
        \cup {[error_type |-> "invalid_format", value |-> PyStr(z)] :
                  z \in Choice(<<"1234", "ABCDE", "00000-000", "ZIP123",
                                 "12AB5">>)}
        \cup {[error_type |-> "invalid_zip", value |-> PyStr(IntStr(n))] :
                  n \in MinFakeZip..MaxFakeZip}

\* The call is made on a pair of the catalog and on the first or the last
\* ZIP of its list.
ZipInit ==
    /\ mpc = "call"
    /\ \E i \in 1..Len(city_zip_mapping) :
          \E k \in {1, Len(city_zip_mapping[i][3])} :
              margs = [fn |-> "create_messy_zip",
                       correct_zip |-> city_zip_mapping[i][3][k],
                       city |-> city_zip_mapping[i][1],
                       state |-> city_zip_mapping[i][2]]
    /\ mresult = PyNone
    /\ mbranch = ""

InitZip == WriterIdle /\ RowIdle /\ ZipInit /\ DetIdle /\ CatIdle

CallCreateMessyZip ==
    /\ mpc = "call"
    /\ margs.fn = "create_messy_zip"
    /\ \E r \in create_messy_zip(margs.correct_zip, margs.city, margs.state) :
          /\ mresult' = r.value
          /\ mbranch' = r.error_type
    /\ mpc' = "returned"
    /\ UNCHANGED margs
    /\ UNCHANGED <<writerVars, rowVars, detVars, catVars>>

NextZip == CallCreateMessyZip

SpecZip == InitZip /\ [][NextZip]_vars

\* C18: when create_messy_zip takes its mismatch branch, for any pair of the
\* catalog, it returns a ZIP of the catalog that belongs to another pair and
\* is not in the ZIP list of (city, state).
C18_MismatchIsAnotherPairsZip ==
    (mpc = "returned" /\ mbranch = "mismatch") =>
        /\ mresult.tag = "str"
        /\ mresult.s \in DOMAIN valid_zips
        /\ valid_zips[mresult.s] # [city |-> margs.city, state |-> margs.state]
        /\ mresult.s \notin Range(ZipsOf(margs.city, margs.state))

\* C18's case: called for New York, the mismatch branch returns 90001, a
\* ZIP of Los Angeles.
C18_Witness ==
    /\ mpc = "returned"
    /\ mbranch = "mismatch"
    /\ margs.city = "New York"
    /\ margs.correct_zip = "10001"
    /\ mresult = PyStr("90001")

\* C19: when create_messy_zip takes its invalid_zip branch it returns five
\* digits that are no ZIP of the catalog: not a key of valid_zips, and so
\* not the correct ZIP either.
C19_FakeZipNotInCatalog ==
    (mpc = "returned" /\ mbranch = "invalid_zip") =>
        /\ mresult.tag = "str"
        /\ Len(mresult.s) = 5
        /\ \A i \in 1..5 : IndexIn(CharAt(mresult.s, i), Digits) > 0
        /\ mresult.s \notin DOMAIN valid_zips
        /\ mresult.s # margs.correct_zip


(***************************************************************************)
(* The columns with patterns of their own, checked under SpecMess.         *)
(***************************************************************************)
\* The column names one of the tests of lines 341-361 is true of.
HasOwnPatterns(column_name) ==
    \E key \in {"email", "phone", "age", "quantity", "price", "cost",
                "amount"} : Contains(key, column_name)

\* C20: for a column name containing email, phone, age, quantity, price,
\* cost or amount, introduce_messiness returns the value it was given or one
\* of the defects of that column's own patterns, never a defect of the
\* general patterns.
C20_OwnPatternsOnly ==
    ( /\ mpc = "returned"
      /\ margs.fn = "introduce_messiness"
      /\ HasOwnPatterns(margs.column_name) )
        => \/ mresult = margs.value
           \/ mresult \in ColumnMessiness(margs.value, margs.column_name)


(***************************************************************************)
(* SpecRefs: the customer, the product and the warehouse of one row of     *)
(* generate_batch_data and the columns copied from their catalog entries   *)
(* (lines 462-473, 493, 511-515, 520-553), on an object whose __init__ has *)
(* built the catalogs.                                                     *)
(***************************************************************************)
\* lines 21-26: the catalogs __init__ leaves
BuiltCatalogs(site, counts) ==
    LET customers == CustomersAfterLoop(NumFirstNames * NumLastNames, site)
    IN  [customers |-> customers,
         weighted_customers |-> WeightedCustomers(CustomerIds(customers)),
         products |-> ProductsOf(counts, NumCategories * NumSubcategories),
         warehouses |-> warehouses,
         dates |-> dates,
         city_zip_mapping |-> city_zip_mapping,
         cities_states |-> cities_states,
         valid_zips |-> valid_zips,
         other_lookups |-> other_lookups]

\* The places random.choice is followed to in a list of n entries: both
\* ends and the quarters.
QuarterIndices(n) == {i \in {1, n \div 4, n \div 2, (3 * n) \div 4, n} : i >= 1}

\* key in catalog
HasKey(catalog, key) == \E i \in 1..Len(catalog) : catalog[i].id = key

\* catalog[key], for a key of the dict
Entry(catalog, key) ==
    catalog[CHOOSE i \in 1..Len(catalog) : catalog[i].id = key]

\* list(catalog.keys())
Keys(catalog) == [i \in 1..Len(catalog) |-> catalog[i].id]

\* line 541
same_state_warehouses(customer_state) ==
    Keys(SelectSeq(catalogs.warehouses,
                   LAMBDA wdata : wdata.state = customer_state))

\* A slip: the test of the list left out of line 543.
WarehouseCandidates_unguarded(customer_state, preferred) ==
    IF preferred
    THEN same_state_warehouses(customer_state)
    ELSE Keys(catalogs.warehouses)

\* lines 543-546: the list random.choice draws the warehouse from;
\* preferred is random.random() < 0.8
WarehouseCandidates(customer_state, preferred) ==
    IF same_state_warehouses(customer_state) # << >> /\ preferred
    THEN same_state_warehouses(customer_state)
    ELSE Keys(catalogs.warehouses)

RefsInit ==
    /\ gpc = "selected_customers"
    /\ row = [selected_customers |-> 0, customer_id |-> 0,
              customer_email |-> "", customer_first_name |-> "",
              customer_last_name |-> "", customer_phone |-> "",
              customer_cities |-> "", customer_states |-> "",
              selected_products |-> 0, product_id |-> 0,
              product_name |-> << >>, product_category |-> 0,
              product_subcategory |-> 0, product_brand |-> 0,
              product_cost |-> 0, product_list_price |-> 0,
              candidates |-> << >>, selected_warehouses |-> 0,
              warehouse_id |-> 0, warehouse_city |-> "",
              warehouse_state |-> "", warehouse_country |-> "",
              raised |-> ""]
    /\ cpc = "ready"
    /\ ncalls = 0
    /\ \E site \in {0, 2} : \E counts \in ProductCounts :
          catalogs = BuiltCatalogs(site, counts)

InitRefs == WriterIdle /\ MessIdle /\ DetIdle /\ RefsInit

\* lines 463-473 and 493: the customer drawn and the columns read from
\* self.customers[cid]
SelectCustomer ==
    /\ gpc = "selected_customers"
    /\ \E i \in QuarterIndices(Len(catalogs.weighted_customers)) :
          LET cid == catalogs.weighted_customers[i]
          IN  IF HasKey(catalogs.customers, cid)
              THEN row' = [row EXCEPT
                      !.selected_customers = cid,
                      !.customer_id = cid,
                      !.customer_email = Entry(catalogs.customers, cid).email,
                      !.customer_first_name =
                          Entry(catalogs.customers, cid).first_name,
                      !.customer_last_name =
                          Entry(catalogs.customers, cid).last_name,
                      !.customer_phone = Entry(catalogs.customers, cid).phone]
              ELSE row' = [row EXCEPT !.selected_customers = cid,
                                      !.raised = "KeyError"]
    /\ gpc' = "customer_states"
    /\ UNCHANGED <<writerVars, messVars, detVars, catVars>>

\* lines 511-515
DrawCustomerStates ==
    /\ gpc = "customer_states"
    /\ row.raised = ""
    /\ \E cs \in Choice(catalogs.cities_states) :
          row' = [row EXCEPT !.customer_cities = cs[1],
                             !.customer_states = cs[2]]
    /\ gpc' = "selected_products"
    /\ UNCHANGED <<writerVars, messVars, detVars, catVars>>

\* lines 520-532: the product drawn and the columns read from
\* self.products[pid]
SelectProduct ==
    /\ gpc = "selected_products"
    /\ \E i \in QuarterIndices(Len(Keys(catalogs.products))) :
          LET pid == Keys(catalogs.products)[i]
              product == Entry(catalogs.products, pid)
          IN  row' = [row EXCEPT
                  !.selected_products = pid,
                  !.product_id = pid,
                  !.product_name = product.name,
                  !.product_category = product.category,
                  !.product_subcategory = product.subcategory,
                  !.product_brand = product.brand,
                  !.product_cost = product.cost,
                  !.product_list_price = product.list_price]
    /\ gpc' = "selected_warehouses"
    /\ UNCHANGED <<writerVars, messVars, detVars, catVars>>

\* lines 535-553: the warehouse drawn, from the warehouses of the
\* customer's state or from all, and the columns read from
\* self.warehouses[wid]; random.choice of an empty list raises IndexError
SelectWarehouse ==
    /\ gpc = "selected_warehouses"
    /\ \E preferred \in BOOLEAN :
          LET candidates == WarehouseCandidates(row.customer_states, preferred)
          IN  IF candidates = << >>
              THEN row' = [row EXCEPT !.candidates = candidates,
                                      !.raised = "IndexError"]
              ELSE \E i \in QuarterIndices(Len(candidates)) :
                      LET wid == candidates[i]
                          warehouse == Entry(catalogs.warehouses, wid)
                      IN  row' = [row EXCEPT
                              !.candidates = candidates,
                              !.selected_warehouses = wid,
                              !.warehouse_id = wid,
                              !.warehouse_city = warehouse.city,
                              !.warehouse_state = warehouse.state,
                              !.warehouse_country = warehouse.country]
    /\ gpc' = "done"
    /\ UNCHANGED <<writerVars, messVars, detVars, catVars>>

NextRefs ==
    \/ SelectCustomer
    \/ DrawCustomerStates
    \/ SelectProduct
    \/ SelectWarehouse

SpecRefs == InitRefs /\ [][NextRefs]_vars


C21_WitnessSharedId ==
    /\ gpc = "done"
    /\ Len(catalogs.customers) = 2499
    /\ row.customer_id = 1
    /\ row.customer_last_name = "Johnson"
    /\ row.customer_email = "james.johnson@gmail.com"

====
